---- MODULE Spec2Model ----
(***************************************************************************)
(* The bridge coordinator of atomic-bridge: BridgeService merges the event *)
(* streams of two blockchain observers and of two ActiveSwapMaps and       *)
(* drives the counterparty lock / initiator complete actions of a swap.    *)
(*                                                                         *)
(* BridgeService (src/src/bridge_service.rs) is modelled from its code.    *)
(* ActiveSwapMap (bridge_service/active_swap.rs) is modelled from          *)
(* spec.md 4.3/4.4; the chains and their observers are the environment.    *)
(***************************************************************************)
EXTENDS Integers, Sequences, FiniteSets, Bags, TLC

\* ---------------------------------------------------------------- bounds
\* number of distinct bridge transfer ids the chains can issue
MaxIds == 2
\* number of events the two chains produce in one run
MaxEnv == 4

Ids == 1..MaxIds
\* the swaps of the opposite direction (initiated on B2)
IdsB2 == {1}
\* pre-images a user may reveal on the destination chain
Secrets == {"s1", "s2"}

\* ---------------------------------------------------------------- types
\* A chain hash: the chain it belongs to and its value.
Hash(chain, v) == <<chain, v>>

\* Convert::convert / From::from between the hash types of the two chains:
\* the value is carried over into the other chain's type.
convert_hash(h, chain) == Hash(chain, h[2])

convert_bridge_transfer_id(id, chain) == convert_hash(id, chain)

convert_hash_lock(hl, chain) == convert_hash(hl, chain)

OtherChain(chain) == IF chain = "BC1" THEN "BC2" ELSE "BC1"

\* BridgeTransferDetails of the swap with number i initiated on `chain`.
BridgeTransferDetails(chain, i) ==
    [ bridge_transfer_id |-> Hash(chain, i),
      initiator_address  |-> <<chain, "initiator">>,
      recipient_address  |-> "recipient",
      hash_lock          |-> Hash(chain, 10 * i),
      time_lock          |-> 100 + i,
      amount             |-> 1000 + i ]

\* LockDetails as the counterparty contract records them from a lock call.
LockDetails(call) ==
    [ bridge_transfer_id |-> call.bridge_transfer_id,
      initiator_address  |-> call.initiator_address,
      recipient_address  |-> call.recipient_address,
      hash_lock          |-> call.hash_lock,
      time_lock          |-> call.time_lock,
      amount             |-> call.amount ]

\* CounterpartyCompletedDetails::from_lock_details
from_lock_details(lock_details, secret) ==
    [ bridge_transfer_id |-> lock_details.bridge_transfer_id,
      initiator_address  |-> lock_details.initiator_address,
      recipient_address  |-> lock_details.recipient_address,
      hash_lock          |-> lock_details.hash_lock,
      secret             |-> secret,
      amount             |-> lock_details.amount ]

\* ContractEvent::InitiatorEvent(kind(payload)) / ::CounterpartyEvent(...);
\* the payload of Initiated, Locked and Completed (counterparty) is the details
\* record, the payload of the initiator's Completed and Refunded is the id.
InitiatorEvent(kind, payload) ==
    [role |-> "Initiator", kind |-> kind, payload |-> payload]

CounterpartyEvent(kind, payload) ==
    [role |-> "Counterparty", kind |-> kind, payload |-> payload]

\* The bridge transfer id an observed contract event is about.
EventId(ev) == ev.payload.bridge_transfer_id

\* Event<B1,B2>: the arm and ContractEvent(..) or Warn(..)
B1I_ContractEvent(ev) == [arm |-> "B1I", tag |-> "ContractEvent", ev |-> ev]
B1I_Warn(kind, details) ==
    [arm |-> "B1I", tag |-> "Warn", ev |-> [kind |-> kind, payload |-> details]]
B2C_ContractEvent(ev) == [arm |-> "B2C", tag |-> "ContractEvent", ev |-> ev]
B2C_Warn(kind, details) ==
    [arm |-> "B2C", tag |-> "Warn", ev |-> [kind |-> kind, payload |-> details]]

\* Poll<Option<Event>> of one poll_next call; Panic is an unwinding todo!().
PollPending == [poll |-> "Pending"]
PollPanic == [poll |-> "Panic"]
PollReady(item) == [poll |-> "Ready", item |-> item]
OptionNone == [poll |-> "None"]

\* ------------------------------------------------------- ActiveSwapMap
\* One directional registry: the entries, the action tasks in flight and the
\* outcomes of finished tasks not yet yielded by the map's stream.
ActiveSwapMap_build(from, to) ==
    [ from  |-> from,
      to    |-> to,
      swaps |-> {},
      tasks |-> EmptyBag,
      ready |-> <<>> ]

ActiveSwapEvent(kind, id) == [kind |-> kind, id |-> id]

NoEvent == [kind |-> "None"]

SwapIds(m) == {e.id : e \in m.swaps}

\* already_executing that never finds the entry.
already_executing_never(m, id) == FALSE

already_executing(m, id) == id \in SwapIds(m)

\* The lock call on the destination counterparty contract for `details`.
LockCall(m, details) ==
    [ kind               |-> "lock",
      bridge_transfer_id |-> convert_bridge_transfer_id(details.bridge_transfer_id, m.to),
      initiator_address  |-> details.initiator_address,
      recipient_address  |-> details.recipient_address,
      hash_lock          |-> convert_hash_lock(details.hash_lock, m.to),
      time_lock          |-> details.time_lock,
      amount             |-> details.amount ]

\* The complete call on the source initiator contract.
CompleteCall(id, secret) ==
    [ kind |-> "complete", bridge_transfer_id |-> id, secret |-> secret ]

start_bridge_transfer(m, details) ==
    IF already_executing(m, details.bridge_transfer_id)
    THEN m
    ELSE [m EXCEPT
            !.swaps = @ \cup {[ id      |-> details.bridge_transfer_id,
                                details |-> details,
                                phase   |-> "LockingOnCounterparty" ]},
            !.tasks = @ (+) SetToBag({LockCall(m, details)})]

\* Result<(), ActiveSwapMapError> and the map after the call.
complete_bridge_transfer(m, completed) ==
    LET id == convert_bridge_transfer_id(completed.bridge_transfer_id, m.from)
    IN  IF ~already_executing(m, id)
        THEN [ok |-> FALSE, error |-> "NonExistingSwap", map |-> m]
        ELSE [ok    |-> TRUE,
              error |-> "None",
              map   |-> [m EXCEPT
                  !.swaps = {IF e.id = id
                             THEN [e EXCEPT !.phase = "CompletingOnInitiator"]
                             ELSE e : e \in @},
                  !.tasks = @ (+) SetToBag({CompleteCall(id, completed.secret)})]]

\* Stream::poll_next of the map: yields the outcome of one finished action.
ActiveSwapMap_poll_next(m) ==
    IF m.ready = <<>>
    THEN [map |-> m, event |-> NoEvent]
    ELSE LET ev == Head(m.ready)
         IN  [event |-> ev,
              map   |-> [m EXCEPT
                  !.ready = Tail(@),
                  !.swaps = {IF /\ e.id = ev.id
                                /\ ev.kind = "BridgeAssetsLocked"
                                /\ e.phase = "LockingOnCounterparty"
                             THEN [e EXCEPT !.phase = "WaitingForCounterpartyCompletion"]
                             ELSE e : e \in @}]]

\* ------------------------------------------------------- BridgeService
VARIABLES
    active_swaps_b1_to_b2,  \* BridgeService.active_swaps_b1_to_b2
    active_swaps_b2_to_b1,  \* BridgeService.active_swaps_b2_to_b1
    blockchain_1,           \* events observer(B1) has ready, oldest first
    blockchain_2,           \* events observer(B2) has ready, oldest first
    chain1,                 \* initiator contract state on B1, per id
    chain2,                 \* counterparty contract state on B2, per id
    emitted,                \* the items the merged stream has yielded so far
    ret,                    \* what the last poll_next returned
    warned,                 \* the warn! records written so far
    panicked,               \* a todo!() was reached
    nEnv,                   \* events the chains have produced so far
    closed                  \* the observers whose stream has ended

vars == << active_swaps_b1_to_b2, active_swaps_b2_to_b1, blockchain_1,
           blockchain_2, chain1, chain2, emitted, ret, warned, panicked, nEnv, closed >>

\* handle_initiator_event without the already_executing check.
handle_initiator_event_unchecked(initiator_event, active_swaps) ==
    CASE initiator_event.kind = "Initiated" ->
           [ret  |-> PollReady(B1I_ContractEvent(initiator_event)),
            map  |-> start_bridge_transfer(active_swaps, initiator_event.payload),
            warn |-> {}]
      [] initiator_event.kind = "Completed" ->
           [ret  |-> PollReady(B1I_ContractEvent(initiator_event)),
            map  |-> active_swaps,
            warn |-> {}]
      [] initiator_event.kind = "Refunded" ->
           [ret |-> PollPanic, map |-> active_swaps, warn |-> {}]

\* handle_initiator_event returning None for the initiator's Completed.
handle_initiator_event_drops_completed(initiator_event, active_swaps) ==
    CASE initiator_event.kind = "Initiated" ->
           LET details == initiator_event.payload
           IN  IF already_executing(active_swaps, details.bridge_transfer_id)
               THEN [ret  |-> PollReady(B1I_Warn("AlreadyPresent", details)),
                     map  |-> active_swaps,
                     warn |-> {[msg |-> "already present",
                                id  |-> details.bridge_transfer_id]}]
               ELSE [ret  |-> PollReady(B1I_ContractEvent(initiator_event)),
                     map  |-> start_bridge_transfer(active_swaps, details),
                     warn |-> {}]
      [] initiator_event.kind = "Completed" ->
           [ret |-> OptionNone, map |-> active_swaps, warn |-> {}]
      [] initiator_event.kind = "Refunded" ->
           [ret |-> PollPanic, map |-> active_swaps, warn |-> {}]

\* handle_initiator_event starting the transfer with the time lock cleared.
handle_initiator_event_clears_time_lock(initiator_event, active_swaps) ==
    CASE initiator_event.kind = "Initiated" ->
           LET details == initiator_event.payload
           IN  IF already_executing(active_swaps, details.bridge_transfer_id)
               THEN [ret  |-> PollReady(B1I_Warn("AlreadyPresent", details)),
                     map  |-> active_swaps,
                     warn |-> {[msg |-> "already present",
                                id  |-> details.bridge_transfer_id]}]
               ELSE [ret  |-> PollReady(B1I_ContractEvent(initiator_event)),
                     map  |-> start_bridge_transfer(active_swaps,
                                  [details EXCEPT !.time_lock = 0]),
                     warn |-> {}]
      [] initiator_event.kind = "Completed" ->
           [ret  |-> PollReady(B1I_ContractEvent(initiator_event)),
            map  |-> active_swaps,
            warn |-> {}]
      [] initiator_event.kind = "Refunded" ->
           [ret |-> PollPanic, map |-> active_swaps, warn |-> {}]

\* Option<Event>: Some(event) is PollReady(event), None is OptionNone; a
\* handler that reaches todo!() gives PollPanic.
\* handle_initiator_event: the returned event, the map and the warn! written.
handle_initiator_event(initiator_event, active_swaps) ==
    CASE initiator_event.kind = "Initiated" ->
           LET details == initiator_event.payload
           IN  IF already_executing(active_swaps, details.bridge_transfer_id)
               THEN [ret  |-> PollReady(B1I_Warn("AlreadyPresent", details)),
                     map  |-> active_swaps,
                     warn |-> {[msg |-> "already present",
                                id  |-> details.bridge_transfer_id]}]
               ELSE [ret  |-> PollReady(B1I_ContractEvent(initiator_event)),
                     map  |-> start_bridge_transfer(active_swaps, details),
                     warn |-> {}]
      [] initiator_event.kind = "Completed" ->
           [ret  |-> PollReady(B1I_ContractEvent(initiator_event)),
            map  |-> active_swaps,
            warn |-> {}]
      [] initiator_event.kind = "Refunded" ->
           [ret |-> PollPanic, map |-> active_swaps, warn |-> {}]

\* handle_counterparty_event passing the contract event through also when
\* complete_bridge_transfer returned NonExistingSwap.
handle_counterparty_event_passthrough(event, active_swaps) ==
    CASE event.kind = "Locked" ->
           [ret  |-> PollReady(B2C_ContractEvent(event)),
            map  |-> active_swaps,
            warn |-> {}]
      [] event.kind = "Completed" ->
           [ret  |-> PollReady(B2C_ContractEvent(event)),
            map  |-> complete_bridge_transfer(active_swaps, event.payload).map,
            warn |-> {}]

\* handle_counterparty_event completing with the hash lock in place of the
\* revealed pre-image.
handle_counterparty_event_wrong_secret(event, active_swaps) ==
    CASE event.kind = "Locked" ->
           [ret  |-> PollReady(B2C_ContractEvent(event)),
            map  |-> active_swaps,
            warn |-> {}]
      [] event.kind = "Completed" ->
           LET details == event.payload
               res == complete_bridge_transfer(active_swaps,
                          [details EXCEPT !.secret = "hash_lock"])
           IN  IF res.ok
               THEN [ret  |-> PollReady(B2C_ContractEvent(event)),
                     map  |-> res.map,
                     warn |-> {}]
               ELSE [ret  |-> PollReady(B2C_Warn("CannotCompleteUnexistingSwap", details)),
                     map  |-> res.map,
                     warn |-> {[msg |-> "error completing bridge transfer",
                                id  |-> details.bridge_transfer_id]}]

\* handle_counterparty_event taking a completed swap it does not know into
\* the map.
handle_counterparty_event_adopts(event, active_swaps) ==
    CASE event.kind = "Locked" ->
           [ret  |-> PollReady(B2C_ContractEvent(event)),
            map  |-> active_swaps,
            warn |-> {}]
      [] event.kind = "Completed" ->
           LET details == event.payload
               id  == convert_bridge_transfer_id(details.bridge_transfer_id,
                                                 active_swaps.from)
               res == complete_bridge_transfer(active_swaps, details)
           IN  [ret  |-> PollReady(B2C_ContractEvent(event)),
                map  |-> IF res.ok THEN res.map
                         ELSE [active_swaps EXCEPT
                                  !.swaps = @ \cup {[id      |-> id,
                                                     details |-> details,
                                                     phase   |-> "CompletingOnInitiator"]},
                                  !.tasks = @ (+) SetToBag({CompleteCall(id, details.secret)})],
                warn |-> {}]

\* handle_counterparty_event
handle_counterparty_event(event, active_swaps) ==
    CASE event.kind = "Locked" ->
           [ret  |-> PollReady(B2C_ContractEvent(event)),
            map  |-> active_swaps,
            warn |-> {}]
      [] event.kind = "Completed" ->
           LET details == event.payload
               res == complete_bridge_transfer(active_swaps, details)
           IN  IF res.ok
               THEN [ret  |-> PollReady(B2C_ContractEvent(event)),
                     map  |-> res.map,
                     warn |-> {}]
               ELSE [ret  |-> PollReady(B2C_Warn("CannotCompleteUnexistingSwap", details)),
                     map  |-> res.map,
                     warn |-> {[msg |-> "error completing bridge transfer",
                                id  |-> details.bridge_transfer_id]}]

\* on_active_swaps_b1_to_b2 dropping the swap whose lock action failed.
on_active_swaps_b1_to_b2_abort(event, m) ==
    [panic |-> FALSE,
     map   |-> IF event.kind = "BridgeAssetsLockingError"
               THEN [m EXCEPT !.swaps = {e \in @ : e.id # event.id}]
               ELSE m,
     warn  |-> IF event.kind = "BridgeAssetsLockingError"
               THEN {[msg |-> "error locking bridge assets", id |-> event.id]}
               ELSE IF event.kind = "BridgeAssetsCompletingError"
               THEN {[msg |-> "error completing bridge assets", id |-> event.id]}
               ELSE {}]

\* on_active_swaps_b1_to_b2 starting the lock action again when it failed.
on_active_swaps_b1_to_b2_retry(event, m) ==
    [panic |-> FALSE,
     map   |-> IF event.kind = "BridgeAssetsLockingError"
               THEN [m EXCEPT !.tasks = @ (+)
                        SetToBag({LockCall(m, e.details) :
                                     e \in {x \in m.swaps : x.id = event.id}})]
               ELSE m,
     warn  |-> IF event.kind = "BridgeAssetsLockingError"
               THEN {[msg |-> "error locking bridge assets", id |-> event.id]}
               ELSE IF event.kind = "BridgeAssetsCompletingError"
               THEN {[msg |-> "error completing bridge assets", id |-> event.id]}
               ELSE {}]

\* on_active_swaps_b1_to_b2 putting the swap whose complete action failed back
\* to waiting for the counterparty's completion.
on_active_swaps_b1_to_b2_requeue(event, m) ==
    [panic |-> FALSE,
     map   |-> IF event.kind = "BridgeAssetsCompletingError"
               THEN [m EXCEPT !.swaps =
                        {IF e.id = event.id
                         THEN [e EXCEPT !.phase = "WaitingForCounterpartyCompletion"]
                         ELSE e : e \in @}]
               ELSE m,
     warn  |-> IF event.kind = "BridgeAssetsLockingError"
               THEN {[msg |-> "error locking bridge assets", id |-> event.id]}
               ELSE IF event.kind = "BridgeAssetsCompletingError"
               THEN {[msg |-> "error completing bridge assets", id |-> event.id]}
               ELSE {}]

\* The match on an event of active_swaps_b1_to_b2: every variant is only
\* logged, the map is left as its own poll left it.
on_active_swaps_b1_to_b2(event, m) ==
    [panic |-> FALSE,
     map   |-> m,
     warn  |-> IF event.kind = "BridgeAssetsLockingError"
               THEN {[msg |-> "error locking bridge assets", id |-> event.id]}
               ELSE IF event.kind = "BridgeAssetsCompletingError"
               THEN {[msg |-> "error completing bridge assets", id |-> event.id]}
               ELSE {}]

\* The match on an event of active_swaps_b2_to_b1: the completion variants
\* are todo!().
on_active_swaps_b2_to_b1(event, m) ==
    [panic |-> event.kind \in {"BridgeAssetsCompleted", "BridgeAssetsCompletingError"},
     map   |-> m,
     warn  |-> IF event.kind = "BridgeAssetsLockingError"
               THEN {[msg |-> "error locking bridge assets", id |-> event.id]}
               ELSE {}]

\* The match on blockchain_1 taking the newest event of the observer first.
on_blockchain_1_newest_first(o1, m12) ==
    IF o1 = <<>>
    THEN [done |-> FALSE, ret |-> PollPending, o1 |-> o1, m12 |-> m12, warn |-> {}]
    ELSE LET event == o1[Len(o1)]
             rest  == SubSeq(o1, 1, Len(o1) - 1)
         IN  IF event.role = "Initiator"
             THEN LET h == handle_initiator_event(event, m12)
                  IN  [done |-> h.ret # OptionNone, ret |-> h.ret, o1 |-> rest,
                       m12 |-> h.map, warn |-> h.warn]
             ELSE [done |-> FALSE, ret |-> PollPending, o1 |-> rest,
                   m12 |-> m12, warn |-> {}]

\* The match on blockchain_1.poll_next_unpin: `done` when poll_next returns
\* from inside it.  An empty queue is Poll::Pending or, once the observer has
\* ended, Poll::Ready(None): both arms only trace.
on_blockchain_1(o1, m12) ==
    IF o1 = <<>>
    THEN [done |-> FALSE, ret |-> PollPending, o1 |-> o1, m12 |-> m12, warn |-> {}]
    ELSE LET event == Head(o1)
         IN  IF event.role = "Initiator"
             THEN LET h == handle_initiator_event(event, m12)
                  IN  [done |-> h.ret # OptionNone, ret |-> h.ret, o1 |-> Tail(o1),
                       m12 |-> h.map, warn |-> h.warn]
             ELSE [done |-> FALSE, ret |-> PollPending, o1 |-> Tail(o1),
                   m12 |-> m12, warn |-> {}]

\* The match on blockchain_2.poll_next_unpin.
on_blockchain_2(o2, m12) ==
    IF o2 = <<>>
    THEN [done |-> FALSE, ret |-> PollPending, o2 |-> o2, m12 |-> m12, warn |-> {}]
    ELSE LET event == Head(o2)
         IN  IF event.role = "Counterparty"
             THEN LET h == handle_counterparty_event(event, m12)
                  IN  [done |-> h.ret # OptionNone, ret |-> h.ret, o2 |-> Tail(o2),
                       m12 |-> h.map, warn |-> h.warn]
             ELSE [done |-> FALSE, ret |-> PollPending, o2 |-> Tail(o2),
                   m12 |-> m12, warn |-> {}]

\* poll_next that goes on to poll blockchain_2 after blockchain_1 gave the event
\* it returns.
poll_next_polls_on(m12, m21, o1, o2) ==
    LET p12 == ActiveSwapMap_poll_next(m12)
        a12 == on_active_swaps_b1_to_b2(p12.event, p12.map)
        p21 == ActiveSwapMap_poll_next(m21)
        a21 == on_active_swaps_b2_to_b1(p21.event, p21.map)
        b1  == on_blockchain_1(o1, a12.map)
        b2  == on_blockchain_2(o2, b1.m12)
    IN  IF a12.panic \/ a21.panic
        THEN [ret |-> PollPanic, m12 |-> a12.map, m21 |-> a21.map,
              o1 |-> o1, o2 |-> o2, warn |-> a12.warn]
        ELSE [ret |-> IF b1.done THEN b1.ret
                      ELSE IF b2.done THEN b2.ret ELSE PollPending,
              m12 |-> b2.m12, m21 |-> a21.map,
              o1 |-> b1.o1, o2 |-> b2.o2,
              warn |-> a12.warn \cup a21.warn \cup b1.warn \cup b2.warn]

\* BridgeService::poll_next: the four sources in their fixed order; a source
\* that returns ends the call, otherwise the call ends Poll::Pending.
poll_next(m12, m21, o1, o2) ==
    LET p12 == ActiveSwapMap_poll_next(m12)
        a12 == on_active_swaps_b1_to_b2(p12.event, p12.map)
        p21 == ActiveSwapMap_poll_next(m21)
        a21 == on_active_swaps_b2_to_b1(p21.event, p21.map)
        b1  == on_blockchain_1(o1, a12.map)
        b2  == on_blockchain_2(o2, b1.m12)
    IN  IF a12.panic
        THEN [ret |-> PollPanic, m12 |-> a12.map, m21 |-> m21,
              o1 |-> o1, o2 |-> o2, warn |-> {}]
        ELSE IF a21.panic
        THEN [ret |-> PollPanic, m12 |-> a12.map, m21 |-> a21.map,
              o1 |-> o1, o2 |-> o2, warn |-> a12.warn]
        ELSE IF b1.done
        THEN [ret |-> b1.ret, m12 |-> b1.m12, m21 |-> a21.map,
              o1 |-> b1.o1, o2 |-> o2,
              warn |-> a12.warn \cup a21.warn \cup b1.warn]
        ELSE IF b2.done
        THEN [ret |-> b2.ret, m12 |-> b2.m12, m21 |-> a21.map,
              o1 |-> b1.o1, o2 |-> b2.o2,
              warn |-> a12.warn \cup a21.warn \cup b2.warn]
        ELSE [ret |-> PollPending, m12 |-> b2.m12, m21 |-> a21.map,
              o1 |-> b1.o1, o2 |-> b2.o2,
              warn |-> a12.warn \cup a21.warn \cup b1.warn \cup b2.warn]

\* What each poll_next_unpin call of one poll_next call returned: Ready when
\* it handed out an item, Pending when it had none (and registered the waker),
\* ReadyNone for an observer that has ended, NotPolled when poll_next returned
\* or unwound before reaching the sub-stream.
sub_stream_polls(m12, m21, o1, o2, ended) ==
    LET p12 == ActiveSwapMap_poll_next(m12)
        a12 == on_active_swaps_b1_to_b2(p12.event, p12.map)
        p21 == ActiveSwapMap_poll_next(m21)
        a21 == on_active_swaps_b2_to_b1(p21.event, p21.map)
        b1  == on_blockchain_1(o1, a12.map)
        Of(q, c) == IF q # <<>> THEN "Ready"
                    ELSE IF c \in ended THEN "ReadyNone" ELSE "Pending"
    IN  [ active_swaps_b1_to_b2 |->
              IF p12.event = NoEvent THEN "Pending" ELSE "Ready",
          active_swaps_b2_to_b1 |->
              IF a12.panic THEN "NotPolled"
              ELSE IF p21.event = NoEvent THEN "Pending" ELSE "Ready",
          blockchain_1 |->
              IF a12.panic \/ a21.panic THEN "NotPolled" ELSE Of(o1, "B1"),
          blockchain_2 |->
              IF a12.panic \/ a21.panic \/ b1.done THEN "NotPolled"
              ELSE Of(o2, "B2") ]

\* BridgeService::new
Init ==
    /\ active_swaps_b1_to_b2 = ActiveSwapMap_build("BC1", "BC2")
    /\ active_swaps_b2_to_b1 = ActiveSwapMap_build("BC2", "BC1")
    /\ blockchain_1 = <<>>
    /\ blockchain_2 = <<>>
    /\ chain1 = [i \in Ids |-> [st |-> "none"]]
    /\ chain2 = [i \in Ids |-> [st |-> "none"]]
    /\ emitted = <<>>
    /\ ret = PollPending
    /\ warned = {}
    /\ panicked = FALSE
    /\ nEnv = 0
    /\ closed = {}

\* One call of poll_next by the executor.
Poll ==
    /\ ~panicked
    /\ \E r \in {poll_next(active_swaps_b1_to_b2, active_swaps_b2_to_b1,
                             blockchain_1, blockchain_2)} :
           /\ active_swaps_b1_to_b2' = r.m12
           /\ active_swaps_b2_to_b1' = r.m21
           /\ blockchain_1' = r.o1
           /\ blockchain_2' = r.o2
           /\ ret' = r.ret
           /\ warned' = warned \cup r.warn
           /\ panicked' = (r.ret.poll = "Panic")
           /\ emitted' = IF r.ret.poll = "Ready"
                         THEN Append(emitted, r.ret.item)
                         ELSE emitted
    /\ UNCHANGED << chain1, chain2, nEnv, closed >>

\* ------------------------------------------------------- environment
\* The chains, their contracts and the action tasks: what the observers
\* deliver and how a started action ends.

IdOf(h) == h[2]

\* The queue of observer c after the chain finalized event ev: an observer
\* whose stream has ended delivers nothing more.
Observed(c, q, ev) == IF c \in closed THEN q ELSE Append(q, ev)

\* A user initiates swap i on B1; observer(B1) sees Initiated(details).
InitiateOnB1(i) ==
    /\ nEnv < MaxEnv
    /\ chain1[i].st = "none"
    /\ chain2[i].st = "none"
    /\ chain1' = [chain1 EXCEPT ![i] = [st |-> "initiated"]]
    /\ blockchain_1' = Observed("B1", blockchain_1,
           InitiatorEvent("Initiated", BridgeTransferDetails("BC1", i)))
    /\ nEnv' = nEnv + 1
    /\ UNCHANGED << active_swaps_b1_to_b2, active_swaps_b2_to_b1, blockchain_2,
                    chain2, emitted, ret, warned, panicked, closed >>

\* The map with task t finished and its outcome queued on the sub-stream.
TaskFinished(m, t, kind) ==
    [m EXCEPT !.tasks = @ (-) SetToBag({t}),
              !.ready = Append(@, ActiveSwapEvent(kind,
                            convert_bridge_transfer_id(t.bridge_transfer_id, m.from)))]

\* lock_bridge_transfer on B2 succeeds: the contract locks and emits Locked.
LockSucceeds(t) ==
    /\ nEnv < MaxEnv
    /\ t \in BagToSet(active_swaps_b1_to_b2.tasks)
    /\ t.kind = "lock"
    /\ chain2[IdOf(t.bridge_transfer_id)].st = "none"
    /\ chain2' = [chain2 EXCEPT ![IdOf(t.bridge_transfer_id)] =
                     [st |-> "locked", lock |-> LockDetails(t)]]
    /\ blockchain_2' = Observed("B2", blockchain_2, CounterpartyEvent("Locked", LockDetails(t)))
    /\ active_swaps_b1_to_b2' =
           TaskFinished(active_swaps_b1_to_b2, t, "BridgeAssetsLocked")
    /\ nEnv' = nEnv + 1
    /\ UNCHANGED << active_swaps_b2_to_b1, blockchain_1, chain1, emitted, ret,
                    warned, panicked, closed >>

\* lock_bridge_transfer on B2 fails.
LockFails(t) ==
    /\ t \in BagToSet(active_swaps_b1_to_b2.tasks)
    /\ t.kind = "lock"
    /\ active_swaps_b1_to_b2' =
           TaskFinished(active_swaps_b1_to_b2, t, "BridgeAssetsLockingError")
    /\ UNCHANGED << active_swaps_b2_to_b1, blockchain_1, blockchain_2, chain1,
                    chain2, emitted, ret, warned, panicked, nEnv, closed >>

\* The user claims on B2 revealing pre-image s; observer(B2) sees Completed.
UserCompleteOnB2(i, s) ==
    /\ nEnv < MaxEnv
    /\ chain2[i].st = "locked"
    /\ chain2' = [chain2 EXCEPT ![i] =
                     [st |-> "completed", lock |-> chain2[i].lock, secret |-> s]]
    /\ blockchain_2' = Observed("B2", blockchain_2,
           CounterpartyEvent("Completed", from_lock_details(chain2[i].lock, s)))
    /\ nEnv' = nEnv + 1
    /\ UNCHANGED << active_swaps_b1_to_b2, active_swaps_b2_to_b1, blockchain_1,
                    chain1, emitted, ret, warned, panicked, closed >>

\* complete_bridge_transfer on B1 succeeds: observer(B1) sees Completed(id).
CompleteSucceeds(t) ==
    /\ nEnv < MaxEnv
    /\ t \in BagToSet(active_swaps_b1_to_b2.tasks)
    /\ t.kind = "complete"
    /\ chain1[IdOf(t.bridge_transfer_id)].st = "initiated"
    /\ chain1' = [chain1 EXCEPT ![IdOf(t.bridge_transfer_id)] =
                     [st |-> "completed", secret |-> t.secret]]
    /\ blockchain_1' = Observed("B1", blockchain_1,
           InitiatorEvent("Completed", [bridge_transfer_id |-> t.bridge_transfer_id]))
    /\ active_swaps_b1_to_b2' =
           TaskFinished(active_swaps_b1_to_b2, t, "BridgeAssetsCompleted")
    /\ nEnv' = nEnv + 1
    /\ UNCHANGED << active_swaps_b2_to_b1, blockchain_2, chain2, emitted, ret,
                    warned, panicked, closed >>

\* complete_bridge_transfer on B1 fails.
CompleteFails(t) ==
    /\ t \in BagToSet(active_swaps_b1_to_b2.tasks)
    /\ t.kind = "complete"
    /\ active_swaps_b1_to_b2' =
           TaskFinished(active_swaps_b1_to_b2, t, "BridgeAssetsCompletingError")
    /\ UNCHANGED << active_swaps_b2_to_b1, blockchain_1, blockchain_2, chain1,
                    chain2, emitted, ret, warned, panicked, nEnv, closed >>

\* A swap the coordinator never saw initiated is completed on B2.
OrphanCompleteOnB2(i) ==
    /\ nEnv < MaxEnv
    /\ chain1[i].st = "none"
    /\ chain2[i].st = "none"
    /\ chain2' = [chain2 EXCEPT ![i] = [st |-> "foreign"]]
    /\ blockchain_2' = Observed("B2", blockchain_2,
           CounterpartyEvent("Completed",
               from_lock_details(
                   LockDetails(LockCall(ActiveSwapMap_build("BC1", "BC2"),
                                        BridgeTransferDetails("BC1", i))), "s1")))
    /\ nEnv' = nEnv + 1
    /\ UNCHANGED << active_swaps_b1_to_b2, active_swaps_b2_to_b1, blockchain_1,
                    chain1, emitted, ret, warned, panicked, closed >>

\* The initiator of swap i is refunded on B1; observer(B1) sees Refunded(id).
RefundOnB1(i) ==
    /\ nEnv < MaxEnv
    /\ chain1[i].st = "initiated"
    /\ chain1' = [chain1 EXCEPT ![i] = [st |-> "refunded"]]
    /\ blockchain_1' = Observed("B1", blockchain_1,
           InitiatorEvent("Refunded", [bridge_transfer_id |-> Hash("BC1", i)]))
    /\ nEnv' = nEnv + 1
    /\ UNCHANGED << active_swaps_b1_to_b2, active_swaps_b2_to_b1, blockchain_2,
                    chain2, emitted, ret, warned, panicked, closed >>

\* At-least-once delivery: an observer delivers its newest event once more.
Redeliver1 ==
    /\ nEnv < MaxEnv
    /\ "B1" \notin closed
    /\ blockchain_1 # <<>>
    /\ blockchain_1' = Observed("B1", blockchain_1, blockchain_1[Len(blockchain_1)])
    /\ nEnv' = nEnv + 1
    /\ UNCHANGED << active_swaps_b1_to_b2, active_swaps_b2_to_b1, blockchain_2,
                    chain1, chain2, emitted, ret, warned, panicked, closed >>

Redeliver2 ==
    /\ nEnv < MaxEnv
    /\ "B2" \notin closed
    /\ blockchain_2 # <<>>
    /\ blockchain_2' = Observed("B2", blockchain_2, blockchain_2[Len(blockchain_2)])
    /\ nEnv' = nEnv + 1
    /\ UNCHANGED << active_swaps_b1_to_b2, active_swaps_b2_to_b1, blockchain_1,
                    chain1, chain2, emitted, ret, warned, panicked, closed >>

\* A swap of the opposite direction is initiated on B2.
InitiateOnB2(i) ==
    /\ nEnv < MaxEnv
    /\ blockchain_2' = Observed("B2", blockchain_2,
           InitiatorEvent("Initiated", BridgeTransferDetails("BC2", i)))
    /\ nEnv' = nEnv + 1
    /\ UNCHANGED << active_swaps_b1_to_b2, active_swaps_b2_to_b1, blockchain_1,
                    chain1, chain2, emitted, ret, warned, panicked, closed >>

\* The counterparty contract on B1 locks for a swap of the opposite direction.
LockedOnB1(i) ==
    /\ nEnv < MaxEnv
    /\ blockchain_1' = Observed("B1", blockchain_1,
           CounterpartyEvent("Locked",
               LockDetails(LockCall(ActiveSwapMap_build("BC2", "BC1"),
                                    BridgeTransferDetails("BC2", i)))))
    /\ nEnv' = nEnv + 1
    /\ UNCHANGED << active_swaps_b1_to_b2, active_swaps_b2_to_b1, blockchain_2,
                    chain1, chain2, emitted, ret, warned, panicked, closed >>

\* Every task a map of this model can hold.
Tasks ==
    {LockCall(ActiveSwapMap_build("BC1", "BC2"), BridgeTransferDetails("BC1", i)) :
        i \in Ids}
    \cup {CompleteCall(Hash("BC1", i), s) : i \in Ids, s \in Secrets}

Next ==
    \/ Poll
    \/ \E i \in Ids : InitiateOnB1(i)
    \/ \E t \in Tasks : LockSucceeds(t)
    \/ \E t \in Tasks : LockFails(t)
    \/ \E i \in Ids, s \in Secrets : UserCompleteOnB2(i, s)
    \/ \E t \in Tasks : CompleteSucceeds(t)
    \/ \E t \in Tasks : CompleteFails(t)
    \/ \E i \in Ids : OrphanCompleteOnB2(i)
    \/ \E i \in Ids : RefundOnB1(i)
    \/ Redeliver1
    \/ Redeliver2
    \/ \E i \in IdsB2 : InitiateOnB2(i)
    \/ \E i \in IdsB2 : LockedOnB1(i)

Spec == Init /\ [][Next]_vars

\* Scenario S1: the executor keeps polling the stream while it can make
\* progress, and no initiator is refunded.
NextS1 ==
    \/ Poll
    \/ \E i \in Ids : InitiateOnB1(i)
    \/ \E t \in Tasks : LockSucceeds(t)
    \/ \E t \in Tasks : LockFails(t)
    \/ \E i \in Ids, s \in Secrets : UserCompleteOnB2(i, s)
    \/ \E t \in Tasks : CompleteSucceeds(t)
    \/ \E t \in Tasks : CompleteFails(t)
    \/ \E i \in Ids : OrphanCompleteOnB2(i)
    \/ Redeliver1
    \/ Redeliver2
    \/ \E i \in IdsB2 : InitiateOnB2(i)
    \/ \E i \in IdsB2 : LockedOnB1(i)

FairSpec == Init /\ [][NextS1]_vars /\ WF_vars(Poll)

\* An observer's stream ends: it delivers what it has queued, then
\* Poll::Ready(None).
ObserverEnds(c) ==
    /\ nEnv < MaxEnv
    /\ c \notin closed
    /\ closed' = closed \cup {c}
    /\ nEnv' = nEnv + 1
    /\ UNCHANGED << active_swaps_b1_to_b2, active_swaps_b2_to_b1, blockchain_1,
                    blockchain_2, chain1, chain2, emitted, ret, warned, panicked >>

Observers == {"B1", "B2"}

NextShutdown ==
    \/ NextS1
    \/ \E c \in Observers : ObserverEnds(c)

\* The fairly polled service whose observers may end.
FairSpecShutdown == Init /\ [][NextShutdown]_vars /\ WF_vars(Poll)

\* The B2 -> B1 direction in use.  poll_next hands no observer event to
\* active_swaps_b2_to_b1, so its entries come from the owner of the service
\* calling the map, a public field, directly.
StartB2ToB1(i) ==
    /\ nEnv < MaxEnv
    /\ active_swaps_b2_to_b1' =
           start_bridge_transfer(active_swaps_b2_to_b1, BridgeTransferDetails("BC2", i))
    /\ nEnv' = nEnv + 1
    /\ UNCHANGED << active_swaps_b1_to_b2, blockchain_1, blockchain_2, chain1,
                    chain2, emitted, ret, warned, panicked, closed >>

CompleteB2ToB1(i, s) ==
    /\ nEnv < MaxEnv
    /\ already_executing(active_swaps_b2_to_b1, Hash("BC2", i))
    /\ active_swaps_b2_to_b1' =
           complete_bridge_transfer(active_swaps_b2_to_b1,
               from_lock_details(
                   LockDetails(LockCall(active_swaps_b2_to_b1,
                                        BridgeTransferDetails("BC2", i))), s)).map
    /\ nEnv' = nEnv + 1
    /\ UNCHANGED << active_swaps_b1_to_b2, blockchain_1, blockchain_2, chain1,
                    chain2, emitted, ret, warned, panicked, closed >>

\* An action task of active_swaps_b2_to_b1 ends, well or with an error.
TaskEndsB2ToB1(t, ok) ==
    /\ t \in BagToSet(active_swaps_b2_to_b1.tasks)
    /\ active_swaps_b2_to_b1' =
           TaskFinished(active_swaps_b2_to_b1, t,
               IF t.kind = "lock"
               THEN (IF ok THEN "BridgeAssetsLocked" ELSE "BridgeAssetsLockingError")
               ELSE (IF ok THEN "BridgeAssetsCompleted"
                           ELSE "BridgeAssetsCompletingError"))
    /\ UNCHANGED << active_swaps_b1_to_b2, blockchain_1, blockchain_2, chain1,
                    chain2, emitted, ret, warned, panicked, nEnv, closed >>

TasksB2ToB1 ==
    {LockCall(ActiveSwapMap_build("BC2", "BC1"), BridgeTransferDetails("BC2", i)) :
        i \in IdsB2}
    \cup {CompleteCall(Hash("BC2", i), s) : i \in IdsB2, s \in Secrets}

NextBothDirections ==
    \/ Next
    \/ \E i \in IdsB2 : StartB2ToB1(i)
    \/ \E i \in IdsB2, s \in Secrets : CompleteB2ToB1(i, s)
    \/ \E t \in TasksB2ToB1, ok \in BOOLEAN : TaskEndsB2ToB1(t, ok)

SpecBothDirections == Init /\ [][NextBothDirections]_vars

\* ------------------------------------------------------------- claims
EntriesFor(m, id) == {e \in m.swaps : e.id = id}

Drained(m) == ActiveSwapMap_poll_next(m).map

\* The event observer(B1) hands to this poll, if it hands one.
B1Takes(role, kind) ==
    /\ ~panicked
    /\ blockchain_1 # <<>>
    /\ Head(blockchain_1).role = role
    /\ Head(blockchain_1).kind = kind

\* The event observer(B2) hands to this poll: poll_next reaches blockchain_2
\* only when blockchain_1 did not end the call.
B2Takes(role, kind) ==
    /\ ~panicked
    /\ blockchain_1 = <<>> \/ Head(blockchain_1).role = "Counterparty"
    /\ blockchain_2 # <<>>
    /\ Head(blockchain_2).role = role
    /\ Head(blockchain_2).kind = kind

\* C3: in every reachable state each swap map holds at most one entry per
\* bridge transfer id, whatever Initiated events (repeats included) the
\* observers deliver.
C3_AtMostOneEntryPerId ==
    \A i \in Ids :
        /\ Cardinality(EntriesFor(active_swaps_b1_to_b2, Hash("BC1", i))) <= 1
        /\ Cardinality(EntriesFor(active_swaps_b2_to_b1, Hash("BC2", i))) <= 1

\* A repeated Initiated was handled for a swap whose entry had moved on.
C3_Witness ==
    \E i \in Ids :
        /\ ret = PollReady(B1I_Warn("AlreadyPresent", BridgeTransferDetails("BC1", i)))
        /\ \E e \in EntriesFor(active_swaps_b1_to_b2, Hash("BC1", i)) :
               e.phase = "WaitingForCounterpartyCompletion"

\* C4: the poll step that takes from observer(B1) an Initiated event whose id
\* is already in active_swaps_b1_to_b2 emits exactly one B1-initiator
\* Warn(AlreadyPresent(details)) (so no ContractEvent(Initiated)), starts no
\* lock action and leaves the swap map as the map's own poll left it.
C4_DuplicateInitiatedWarns ==
    [][ ( /\ B1Takes("Initiator", "Initiated")
          /\ already_executing(active_swaps_b1_to_b2,
                               Head(blockchain_1).payload.bridge_transfer_id)
          /\ Poll )
        => /\ emitted' = Append(emitted,
                  B1I_Warn("AlreadyPresent", Head(blockchain_1).payload))
           /\ active_swaps_b1_to_b2' = Drained(active_swaps_b1_to_b2)
           /\ active_swaps_b1_to_b2'.tasks = active_swaps_b1_to_b2.tasks
           /\ blockchain_2' = blockchain_2 ]_vars

C4_Witness ==
    \E i \in Ids :
        /\ ret = PollReady(B1I_Warn("AlreadyPresent", BridgeTransferDetails("BC1", i)))
        /\ Len(emitted) >= 2

\* C5: the poll step that takes from observer(B2) a counterparty Completed
\* event whose id is not in active_swaps_b1_to_b2 emits exactly one
\* B2-counterparty Warn(CannotCompleteUnexistingSwap(details)), issues no
\* complete action, leaves the swap map unchanged and does not panic.
C5_OrphanCompletedWarns ==
    [][ ( /\ B2Takes("Counterparty", "Completed")
          /\ ~already_executing(active_swaps_b1_to_b2,
                 convert_bridge_transfer_id(
                     Head(blockchain_2).payload.bridge_transfer_id, "BC1"))
          /\ Poll )
        => /\ emitted' = Append(emitted,
                  B2C_Warn("CannotCompleteUnexistingSwap", Head(blockchain_2).payload))
           /\ active_swaps_b1_to_b2' = Drained(active_swaps_b1_to_b2)
           /\ active_swaps_b1_to_b2'.tasks = active_swaps_b1_to_b2.tasks
           /\ ~panicked' ]_vars

C5_Witness ==
    /\ ret.poll = "Ready"
    /\ ret.item.arm = "B2C"
    /\ ret.item.tag = "Warn"
    /\ ret.item.ev.kind = "CannotCompleteUnexistingSwap"
    /\ ~panicked

\* C6: the poll step that handles a counterparty Completed event for a swap in
\* the map starts exactly one complete action on the source initiator
\* contract, and its pre-image is the secret the event carries.
C6_PreImageForwarded ==
    [][ ( /\ B2Takes("Counterparty", "Completed")
          /\ already_executing(active_swaps_b1_to_b2,
                 convert_bridge_transfer_id(
                     Head(blockchain_2).payload.bridge_transfer_id, "BC1"))
          /\ Poll )
        => active_swaps_b1_to_b2'.tasks =
               active_swaps_b1_to_b2.tasks (+)
               SetToBag({CompleteCall(
                   convert_bridge_transfer_id(
                       Head(blockchain_2).payload.bridge_transfer_id, "BC1"),
                   Head(blockchain_2).payload.secret)}) ]_vars

C6_Witness ==
    \E i \in Ids :
        /\ ret.poll = "Ready"
        /\ ret.item.tag = "ContractEvent"
        /\ ret.item.ev.kind = "Completed"
        /\ ret.item.ev.role = "Counterparty"
        /\ ret.item.ev.payload.secret = "s2"
        /\ BagIn(CompleteCall(Hash("BC1", i), "s2"), active_swaps_b1_to_b2.tasks)

\* The contract events of the merged stream about swap i, oldest first.
IsContractEventOf(item, i) ==
    /\ item.tag = "ContractEvent"
    /\ IdOf(EventId(item.ev)) = i

Emitted(item) == \E k \in 1..Len(emitted) : emitted[k] = item

\* The map's sub-stream has yielded BridgeAssetsLockingError for swap i to
\* poll_next (which logs it).
LockingErrorYielded(i) ==
    [msg |-> "error locking bridge assets", id |-> Hash("BC1", i)] \in warned

\* C10: once the sub-stream of active_swaps_b1_to_b2 has yielded
\* BridgeAssetsLockingError for an Initiated swap, the merged stream has
\* emitted ContractEvent(Initiated) for it, its entry is still in the map in
\* phase LockingOnCounterparty, and the merged stream holds no counterparty
\* Locked event for that id.
C10_LockFailureKeepsEntry ==
    \A i \in Ids :
        LockingErrorYielded(i) =>
            /\ Emitted(B1I_ContractEvent(
                   InitiatorEvent("Initiated", BridgeTransferDetails("BC1", i))))
            /\ \E e \in EntriesFor(active_swaps_b1_to_b2, Hash("BC1", i)) :
                   e.phase = "LockingOnCounterparty"
            /\ Cardinality(EntriesFor(active_swaps_b1_to_b2, Hash("BC1", i))) = 1
            /\ \A k \in 1..Len(emitted) :
                   ~( /\ IsContractEventOf(emitted[k], i)
                      /\ emitted[k].ev.role = "Counterparty"
                      /\ emitted[k].ev.kind = "Locked" )

\* The lock of a swap failed, was yielded, and the service polled on.
C10_Witness ==
    \E i \in Ids :
        /\ LockingErrorYielded(i)
        /\ chain1[i].st = "initiated"
        /\ active_swaps_b1_to_b2.ready = <<>>
        /\ active_swaps_b1_to_b2.tasks = EmptyBag
        /\ Len(emitted) >= 2

\* The four contract events of swap i appear on the merged stream in the
\* order of the happy path, the counterparty Completed carrying secret s.
HappyOrder(i, s) ==
    LET lock == LockDetails(LockCall(ActiveSwapMap_build("BC1", "BC2"),
                                     BridgeTransferDetails("BC1", i)))
        e1 == B1I_ContractEvent(
                  InitiatorEvent("Initiated", BridgeTransferDetails("BC1", i)))
        e2 == B2C_ContractEvent(CounterpartyEvent("Locked", lock))
        e3 == B2C_ContractEvent(
                  CounterpartyEvent("Completed", from_lock_details(lock, s)))
        e4 == B1I_ContractEvent(
                  InitiatorEvent("Completed", [bridge_transfer_id |-> Hash("BC1", i)]))
        n  == Len(emitted)
    IN  \E a \in 1..n :
            /\ emitted[a] = e1
            /\ \E b \in (a + 1)..n :
                   /\ emitted[b] = e2
                   /\ \E c \in (b + 1)..n :
                          /\ emitted[c] = e3
                          /\ \E d \in (c + 1)..n : emitted[d] = e4

\* Swap i was initiated on B1, locked on B2, completed on B2 by the user with
\* pre-image s, and the complete action on B1 succeeded.
HappyPathDone(i, s) ==
    /\ chain1[i].st = "completed"
    /\ chain2[i].st = "completed"
    /\ chain2[i].secret = s

\* C1: when Initiated X was delivered by observer(B1), the lock on B2
\* succeeded, the user completed on B2 with pre-image s and the complete on B1
\* succeeded, the fairly polled stream eventually has emitted, in this order,
\* B1I Initiated X, B2C Locked X, B2C Completed X with secret s, B1I
\* Completed X.
C1_HappyPathLiveness ==
    \A i \in Ids : \A s \in Secrets : HappyPathDone(i, s) ~> HappyOrder(i, s)

C1_Witness ==
    \E i \in Ids : HappyPathDone(i, "s2") /\ HappyOrder(i, "s2")

\* <<role, kind>> of the contract events emitted about swap i, oldest first.
ContractKinds(i) ==
    LET Test(item) == IsContractEventOf(item, i)
        sel == SelectSeq(emitted, Test)
    IN  [k \in 1..Len(sel) |-> <<sel[k].ev.role, sel[k].ev.kind>>]

Lifecycle ==
    << <<"Initiator", "Initiated">>, <<"Counterparty", "Locked">>,
       <<"Counterparty", "Completed">>, <<"Initiator", "Completed">> >>

IsPrefix(s, t) ==
    /\ Len(s) <= Len(t)
    /\ \A k \in 1..Len(s) : s[k] = t[k]

\* C2: for every swap, the contract events the merged stream has emitted for
\* it are a prefix of Initiated, counterparty Locked, counterparty Completed,
\* initiator Completed, also when an observer delivers an event more than once.
C2_ContractEventsArePrefix ==
    \A i \in Ids : IsPrefix(ContractKinds(i), Lifecycle)

\* C7: the poll step that takes an InitiatorEvent from observer(B2) handles it
\* with handle_initiator_event against active_swaps_b2_to_b1 and emits what
\* the handler returns.
C7_B2InitiatorEventHandled ==
    [][ ( B2Takes("Initiator", "Initiated") /\ Poll )
        => LET h == handle_initiator_event(Head(blockchain_2),
                                           Drained(active_swaps_b2_to_b1))
           IN  /\ active_swaps_b2_to_b1' = h.map
               /\ emitted' = Append(emitted, h.ret.item) ]_vars

\* C8: the poll step that takes an initiator Refunded(id) from observer(B1)
\* does not panic and leaves no entry for id in the swap map.
C8_RefundedAccepted ==
    [][ ( B1Takes("Initiator", "Refunded") /\ Poll )
        => /\ ~panicked'
           /\ ret'.poll # "Panic"
           /\ ~already_executing(active_swaps_b1_to_b2',
                                 Head(blockchain_1).payload.bridge_transfer_id) ]_vars

\* C9: a poll step in which a swap map yields an ActiveSwapEvent (any of the
\* four variants, either map) neither panics nor reports end-of-stream.
C9_ActionOutcomeNeverStops ==
    [][ ( /\ ~panicked
          /\ \/ active_swaps_b1_to_b2.ready # <<>>
             \/ active_swaps_b2_to_b1.ready # <<>>
          /\ ~B1Takes("Initiator", "Refunded")
          /\ Poll )
        => /\ ~panicked'
           /\ ret'.poll \in {"Pending", "Ready"} ]_vars

\* Poll::Ready(None) of the merged stream: end-of-stream.
PollReadyNone == [poll |-> "ReadyNone"]

\* Both observers have terminated (ended and handed out all they had) and
\* both swap maps are empty.
BothTerminatedAndEmpty ==
    /\ closed = Observers
    /\ blockchain_1 = <<>>
    /\ blockchain_2 = <<>>
    /\ active_swaps_b1_to_b2.swaps = {}
    /\ active_swaps_b2_to_b1.swaps = {}

\* C11: the merged stream reports end-of-stream only when both observers
\* have terminated and both swap maps are empty, and once that is so a poll
\* eventually reports end-of-stream.
C11_TerminatesWhenDone ==
    /\ [](ret = PollReadyNone => BothTerminatedAndEmpty)
    /\ (BothTerminatedAndEmpty ~> (ret = PollReadyNone))

\* observer(B1) has an event ready that gives a visible event.
B1Visible ==
    /\ blockchain_1 # <<>>
    /\ Head(blockchain_1).role = "Initiator"
    /\ Head(blockchain_1).kind \in {"Initiated", "Completed"}

\* observer(B2) has an event ready that gives a visible event.
B2Visible ==
    /\ blockchain_2 # <<>>
    /\ Head(blockchain_2).role = "Counterparty"

\* C12: one poll step emits at most one event; when observer(B1) and
\* observer(B2) both have an event ready that gives a visible event, the step
\* emits the B1 event and leaves the B2 event at the head of observer(B2), so
\* a later poll takes it.
C12_OneEventPerPollB1First ==
    [][ Poll =>
          /\ Len(emitted') <= Len(emitted) + 1
          /\ (B1Visible /\ B2Visible) =>
                /\ Len(emitted') = Len(emitted) + 1
                /\ emitted'[Len(emitted')].arm = "B1I"
                /\ emitted'[Len(emitted')].ev.payload = Head(blockchain_1).payload
                /\ blockchain_1' = Tail(blockchain_1)
                /\ blockchain_2' = blockchain_2 ]_vars

\* Initiated of a second swap was emitted by the poll that drained the lock
\* outcome of the first, whose Locked event is still the head of observer(B2).
C12_Witness ==
    /\ nEnv = 3
    /\ ret.poll = "Ready"
    /\ ret.item.arm = "B1I"
    /\ ret.item.tag = "ContractEvent"
    /\ Len(blockchain_2) = 1
    /\ B2Visible
    /\ Head(blockchain_2).kind = "Locked"
    /\ active_swaps_b1_to_b2.ready = <<>>
    /\ \E e \in active_swaps_b1_to_b2.swaps :
           e.phase = "WaitingForCounterpartyCompletion"

\* The ids whose ContractEvent(Initiated) the merged stream has emitted, in
\* the order of emission.
InitiatedEmitted ==
    LET Test(item) == /\ item.arm = "B1I"
                      /\ item.tag = "ContractEvent"
                      /\ item.ev.kind = "Initiated"
        sel == SelectSeq(emitted, Test)
    IN  [k \in 1..Len(sel) |-> EventId(sel[k].ev)]

\* The ids observer(B1) has delivered as Initiated and the service has not
\* taken yet, in the order of their first delivery.
InitiatedQueued ==
    LET q == blockchain_1
        First(k) == /\ q[k].role = "Initiator"
                    /\ q[k].kind = "Initiated"
                    /\ ~already_executing(active_swaps_b1_to_b2, EventId(q[k]))
                    /\ \A j \in 1..(k - 1) : q[j] # q[k]
        RECURSIVE From(_)
        From(k) == IF k > Len(q) THEN <<>>
                   ELSE IF First(k) THEN <<EventId(q[k])>> \o From(k + 1)
                   ELSE From(k + 1)
    IN  From(1)

\* The order in which observer(B1) delivered the first Initiated of each id.
DeliveryOrder == InitiatedEmitted \o InitiatedQueued

Rank(role, kind) ==
    CASE role = "Initiator" /\ kind = "Initiated" -> 1
      [] role = "Counterparty" /\ kind = "Locked" -> 2
      [] role = "Counterparty" /\ kind = "Completed" -> 3
      [] role = "Initiator" /\ kind = "Completed" -> 4
      [] OTHER -> 0

\* Every contract event emitted for swap i comes after the event of the
\* lifecycle step before it.
PerIdOrder(i) ==
    LET sel == ContractKinds(i)
    IN  \A k \in 1..Len(sel) :
            LET r == Rank(sel[k][1], sel[k][2])
            IN  /\ r >= 1
                /\ r = 1 \/ \E j \in 1..(k - 1) : Rank(sel[j][1], sel[j][2]) = r - 1

PositionOf(item) ==
    IF Emitted(item)
    THEN CHOOSE k \in 1..Len(emitted) :
             /\ emitted[k] = item
             /\ \A j \in 1..(k - 1) : emitted[j] # item
    ELSE 0

NoObserverReady ==
    /\ blockchain_1 = <<>>
    /\ blockchain_2 = <<>>

\* C14: a poll in a state where neither observer has an event ready reports
\* pending, emits nothing, starts no contract action and leaves the entries
\* of both swap maps as they are (each map is as its own sub-stream poll
\* left it).
C14_IdlePollIsNoOp ==
    [][ (NoObserverReady /\ Poll) =>
          /\ ret' = PollPending
          /\ emitted' = emitted
          /\ active_swaps_b1_to_b2'.tasks = active_swaps_b1_to_b2.tasks
          /\ active_swaps_b2_to_b1'.tasks = active_swaps_b2_to_b1.tasks
          /\ SwapIds(active_swaps_b1_to_b2') = SwapIds(active_swaps_b1_to_b2)
          /\ SwapIds(active_swaps_b2_to_b1') = SwapIds(active_swaps_b2_to_b1)
          /\ active_swaps_b1_to_b2' = Drained(active_swaps_b1_to_b2)
          /\ active_swaps_b2_to_b1' = Drained(active_swaps_b2_to_b1)
          /\ NoObserverReady' ]_vars

\* The only chain event was one Initiated; its lock failed and the poll that
\* took the error from the sub-stream found both observers idle.
C14_Witness ==
    /\ nEnv = 1
    /\ ret = PollPending
    /\ NoObserverReady
    /\ Len(emitted) = 1
    /\ \E i \in Ids : LockingErrorYielded(i)

\* The action tasks of map m that belong to the entry of id.
TasksOf(m, id) ==
    {t \in BagToSet(m.tasks) :
        convert_bridge_transfer_id(t.bridge_transfer_id, m.from) = id}

\* The number of actions in flight for the entry of id.
InFlight(m, id) ==
    BagCardinality([t \in TasksOf(m, id) |-> CopiesIn(t, m.tasks)])

\* C15: in every reachable state at most one action (lock or complete) is in
\* flight for an entry; in particular a complete action is never in flight
\* together with the entry's lock action or with another complete action.
C15_ActionsSerialized ==
    /\ \A e \in active_swaps_b1_to_b2.swaps :
           InFlight(active_swaps_b1_to_b2, e.id) <= 1
    /\ \A e \in active_swaps_b2_to_b1.swaps :
           InFlight(active_swaps_b2_to_b1, e.id) <= 1

\* The number of complete actions in flight for the entry of id.
CompletesInFlight(m, id) ==
    BagCardinality([t \in {x \in TasksOf(m, id) : x.kind = "complete"} |->
                       CopiesIn(t, m.tasks)])

\* C16: for each transfer id at most one complete action is ever issued on
\* the source initiator contract: no step issues a complete action for an
\* entry that is in phase CompletingOnInitiator, the phase it is in once its
\* complete action was issued.
C16_AtMostOneCompletion ==
    [][ \A e \in active_swaps_b1_to_b2.swaps :
            CompletesInFlight(active_swaps_b1_to_b2', e.id) >
                CompletesInFlight(active_swaps_b1_to_b2, e.id)
            => e.phase # "CompletingOnInitiator" ]_vars

\* C17: the poll step that takes from observer(B1) the initiator's
\* Completed(id) of a swap in the map removes the entry, so that afterwards
\* already_executing(id) is false.
C17_CompletedRemovesEntry ==
    [][ ( /\ B1Takes("Initiator", "Completed")
          /\ already_executing(active_swaps_b1_to_b2, EventId(Head(blockchain_1)))
          /\ Poll )
        => ~already_executing(active_swaps_b1_to_b2',
                              EventId(Head(blockchain_1))) ]_vars

PhaseRank(phase) ==
    CASE phase = "LockingOnCounterparty" -> 1
      [] phase = "WaitingForCounterpartyCompletion" -> 2
      [] phase = "CompletingOnInitiator" -> 3
      [] phase = "Done" -> 4

\* No entry of map m is in an earlier phase in m2.
PhasesForward(m, m2) ==
    \A e \in m.swaps : \A e2 \in m2.swaps :
        e2.id = e.id => PhaseRank(e2.phase) >= PhaseRank(e.phase)

\* C18: no step (observer event handled, action outcome taken, action ended
\* well or with an error, event delivered again) moves a swap entry to an
\* earlier phase of LockingOnCounterparty, WaitingForCounterpartyCompletion,
\* CompletingOnInitiator, Done.
C18_PhasesNeverRegress ==
    [][ /\ PhasesForward(active_swaps_b1_to_b2, active_swaps_b1_to_b2')
        /\ PhasesForward(active_swaps_b2_to_b1, active_swaps_b2_to_b1') ]_vars

\* The complete action of a swap failed, the error was taken from the
\* sub-stream, and the entry is still completing.
C18_Witness ==
    \E e \in active_swaps_b1_to_b2.swaps :
        /\ e.phase = "CompletingOnInitiator"
        /\ [msg |-> "error completing bridge assets", id |-> e.id] \in warned
        /\ active_swaps_b1_to_b2.ready = <<>>

\* The merged stream has emitted ContractEvent(Initiated) for id: the source
\* chain's observer delivered it and handle_initiator_event took it.
InitiatedHandled(id) ==
    \E k \in 1..Len(emitted) :
        /\ emitted[k].tag = "ContractEvent"
        /\ emitted[k].ev.role = "Initiator"
        /\ emitted[k].ev.kind = "Initiated"
        /\ EventId(emitted[k].ev) = id

\* Every id in map m was delivered as Initiated.
EntriesWereInitiated(m) == \A id \in SwapIds(m) : InitiatedHandled(id)

\* C19: every id in a swap map was delivered as Initiated by the observer of
\* its source chain; the only step that adds an entry is the poll that takes
\* an Initiated event from that observer, and it adds the entry of that id;
\* an entry leaves only when its swap is complete on the source chain.
C19_EntersOnlyViaInitiated ==
    /\ [](EntriesWereInitiated(active_swaps_b1_to_b2)
           /\ EntriesWereInitiated(active_swaps_b2_to_b1))
    /\ [][ /\ SwapIds(active_swaps_b1_to_b2') # SwapIds(active_swaps_b1_to_b2) =>
                /\ \/ /\ B1Takes("Initiator", "Initiated")
                      /\ Poll
                      /\ SwapIds(active_swaps_b1_to_b2') =
                             SwapIds(active_swaps_b1_to_b2)
                                 \cup {EventId(Head(blockchain_1))}
                   \/ SwapIds(active_swaps_b1_to_b2') \subseteq
                          SwapIds(active_swaps_b1_to_b2)
                /\ \A id \in SwapIds(active_swaps_b1_to_b2)
                               \ SwapIds(active_swaps_b1_to_b2') :
                       chain1[IdOf(id)].st = "completed"
           /\ SwapIds(active_swaps_b2_to_b1') # SwapIds(active_swaps_b2_to_b1) =>
                /\ B2Takes("Initiator", "Initiated")
                /\ Poll
                /\ SwapIds(active_swaps_b2_to_b1') =
                       SwapIds(active_swaps_b2_to_b1)
                           \cup {EventId(Head(blockchain_2))} ]_vars

\* A swap is in the map, its Locked event was emitted and the Completed of a
\* swap never initiated was answered with a warning: one entry, from the one
\* Initiated.
C19_Witness ==
    /\ Cardinality(SwapIds(active_swaps_b1_to_b2)) = 1
    /\ active_swaps_b1_to_b2.ready = <<>>
    /\ \E k \in 1..Len(emitted) :
           /\ emitted[k].tag = "Warn"
           /\ emitted[k].ev.kind = "CannotCompleteUnexistingSwap"
    /\ \E k \in 1..Len(emitted) :
           /\ emitted[k].tag = "ContractEvent"
           /\ emitted[k].ev.kind = "Locked"

\* lock (a lock call or the LockDetails of a Locked event) carries what the
\* Initiated details d give: id and hash_lock converted to the destination
\* chain's hash type, time_lock and amount as they are.
CarriesInitiated(lock, d) ==
    /\ lock.bridge_transfer_id = convert_bridge_transfer_id(d.bridge_transfer_id, "BC2")
    /\ lock.hash_lock = convert_hash_lock(d.hash_lock, "BC2")
    /\ lock.time_lock = d.time_lock
    /\ lock.amount = d.amount

\* The Initiated details the merged stream has emitted among its first n items.
InitiatedDetails(n) ==
    {emitted[j].ev.payload : j \in {k \in 1..n :
        /\ emitted[k].arm = "B1I"
        /\ emitted[k].tag = "ContractEvent"
        /\ emitted[k].ev.kind = "Initiated"}}

\* C20: every lock action in flight on the destination chain, and every
\* counterparty Locked event the merged stream emits, carries the id and the
\* hash_lock of an Initiated event emitted before, passed through the hash
\* conversion, and that event's time_lock and amount unchanged.
C20_LockCarriesConvertedDetails ==
    /\ \A t \in BagToSet(active_swaps_b1_to_b2.tasks) :
           t.kind = "lock" =>
               \E d \in InitiatedDetails(Len(emitted)) : CarriesInitiated(t, d)
    /\ \A k \in 1..Len(emitted) :
           ( /\ emitted[k].arm = "B2C"
             /\ emitted[k].tag = "ContractEvent"
             /\ emitted[k].ev.kind = "Locked" )
           => \E d \in InitiatedDetails(k - 1) :
                  CarriesInitiated(emitted[k].ev.payload, d)

\* The Locked event of swap 1 was emitted with the converted hash lock and
\* the time lock and amount of its Initiated event.
C20_Witness ==
    \E k \in 1..Len(emitted) :
        /\ emitted[k].arm = "B2C"
        /\ emitted[k].tag = "ContractEvent"
        /\ emitted[k].ev.kind = "Locked"
        /\ emitted[k].ev.payload.bridge_transfer_id = Hash("BC2", 1)
        /\ emitted[k].ev.payload.hash_lock = Hash("BC2", 10)
        /\ emitted[k].ev.payload.hash_lock # BridgeTransferDetails("BC1", 1).hash_lock
        /\ emitted[k].ev.payload.time_lock = 101
        /\ emitted[k].ev.payload.amount = 1001

\* The sub-streams that handed an item to this poll_next call.
GaveAnItem ==
    LET polls == sub_stream_polls(active_swaps_b1_to_b2, active_swaps_b2_to_b1,
                                  blockchain_1, blockchain_2, closed)
    IN  {sub \in DOMAIN polls : polls[sub] = "Ready"}

\* C21: whenever a poll of the merged stream returns pending, no sub-stream
\* (swap map or observer) handed an item to that poll: each one that was
\* polled reported that it had nothing.
C21_PendingOnlyWhenAllPending ==
    [][ (Poll /\ ret' = PollPending) => GaveAnItem = {} ]_vars

====
